---- MODULE Spec2Model ----
(***************************************************************************)
(* Model of Robbie's plot_variables scripts: the summary renderers, the    *)
(* per-source light-curve renderer plot_lc_table (skip-if-exists, sort by  *)
(* date) and its driver plot_lc_table_parallel (start/stride sharding over *)
(* a multiprocessing pool).                                                *)
(*                                                                         *)
(* Row indices are Python's (0-based); ftab[j + 1] is Python's ftab[j].    *)
(***************************************************************************)
EXTENDS Integers, Sequences, FiniteSets, TLC

\* ------------------------------------------------------------------ bounds
MaxRows == 3      \* rows of the flux table, one invocation
TwoRows == 2      \* rows of the flux table, two invocations or fair scheduling
MaxProcs == 2     \* worker count of an invocation
MaxEpochs == 3    \* epoch columns of the flux table, one direct call
MaxStats == 4     \* rows of the statistics table handed to a summary renderer

Invs == 1 .. 2
UUIDs == 1 .. MaxRows
Workers == 0 .. (MaxProcs - 1)

\* A path with no file, and a file left by an earlier run.
Absent == [kind |-> "absent"]
OldFile == [kind |-> "old"]
None == [kind |-> "none"]
\* What strptime gives instead of a datetime when the text does not match.
ValueError == <<>>
\* An exception leaving the loop body of plot_lc_table.
Raised(e) == [kind |-> "raised", exc |-> e]

VARIABLES
    ftab,      \* the flux table: a sequence of rows [uuid, epochs]
    stab,      \* the statistics table: a sequence of rows [uuid, pval]
    files,     \* the output directory: uuid -> Absent or the saved figure
    files0,    \* the output directory before any renderer ran
    nprocs,    \* per invocation of plot_lc_table_parallel: its worker count
    drv,       \* per invocation: where the driver is
    nsub,      \* per invocation: the loop variable i of the submit loop
    wk,        \* per invocation and pool task: the task of plot_lc_table
    ops,       \* history: <<invocation, task, "exists" | "savefig", row index, uuid,
               \*           whether the file was there>>
    snap,      \* per invocation: the output directory when it was called
    prior,     \* per invocation: the invocations that had returned when it was called
    summary    \* what the summary renderer handed to scatter (None before it ran)

vars == <<ftab, stab, files, files0, nprocs, drv, nsub, wk, ops, snap, prior, summary>>

\* ------------------------------------------------------------ time labels
\* An epoch label is the text of a date: its fields and the separator between
\* date and time, which is what the format "%Y-%m-%dT%H:%M:%S" looks at.
Label(y, mo, d, sep, h, mi, s) ==
    [date |-> <<y, mo, d>>, sep |-> sep, time |-> <<h, mi, s>>]

DaysInMonth(y, mo) ==
    IF mo \in {4, 6, 9, 11} THEN 30
    ELSE IF mo = 2
         THEN (IF (y % 4 = 0 /\ y % 100 # 0) \/ y % 400 = 0 THEN 29 ELSE 28)
         ELSE 31

\* datetime.datetime.strptime(a, "%Y-%m-%dT%H:%M:%S"): the datetime
\* <<year, month, day, hour, minute, second>>, or ValueError.
strptime(a) ==
    IF /\ a.sep = "T"
       /\ a.date[1] \in 1 .. 9999
       /\ a.date[2] \in 1 .. 12
       /\ a.date[3] \in 1 .. DaysInMonth(a.date[1], a.date[2])
       /\ a.time[1] \in 0 .. 23
       /\ a.time[2] \in 0 .. 59
       /\ a.time[3] \in 0 .. 61
    THEN <<a.date[1], a.date[2], a.date[3], a.time[1], a.time[2],
           IF a.time[3] > 59 THEN 59 ELSE a.time[3]>>
    ELSE ValueError

\* datetime's order: field by field, most significant first.
RECURSIVE LexLess(_, _, _)
LexLess(s, t, k) ==
    IF k > Len(s) THEN FALSE
    ELSE IF s[k] # t[k] THEN s[k] < t[k]
    ELSE LexLess(s, t, k + 1)

DateLess(s, t) == LexLess(s, t, 1)

\* ------------------------------------------------------------- the sort
\* Variant: the key is the flux, not the date.
SortKeyFlux(t) == <<t[2]>>

\* The key of line 95: the parsed date of the triple's epoch label.
SortKey(t) == strptime(t[1])

\* One insertion of Python's stable sort: x goes after every element whose
\* key is not greater than its own.
RECURSIVE InsertSorted(_, _)
InsertSorted(x, s) ==
    IF s = <<>> THEN <<x>>
    ELSE IF DateLess(SortKey(x), SortKey(Head(s)))
         THEN <<x>> \o s
         ELSE <<Head(s)>> \o InsertSorted(x, Tail(s))

RECURSIVE SortedFrom(_, _)
SortedFrom(zipped, acc) ==
    IF zipped = <<>> THEN acc
    ELSE SortedFrom(Tail(zipped), InsertSorted(Head(zipped), acc))

\* Variant: the triples are left in storage order.
unsorted(zipped) == zipped

\* sorted(zipped_list, key=...): ascending by key, equal keys in input order.
sorted(zipped) == SortedFrom(zipped, <<>>)

\* zip(row[epochs], row[fluxes], row[err_fluxes]): the row's triples.
zipped_list(row) ==
    [k \in 1 .. Len(row.epochs) |->
        <<row.epochs[k].epoch, row.epochs[k].peak_flux, row.epochs[k].err_peak_flux>>]

sorted_list(row) == sorted(zipped_list(row))

\* The statistics rows of a uuid: stab[stab['uuid'] == row['uuid']].
srow(st, uuid) == SelectSeq(st, LAMBDA r : r.uuid = uuid)

\* The body of plot_lc_table's loop after the exists check: the figure that
\* savefig writes, or ValueError/IndexError when a statement before it raises.
RenderRow(row, st) ==
    IF \E k \in 1 .. Len(row.epochs) : strptime(row.epochs[k].epoch) = ValueError
    THEN Raised("ValueError")                        \* line 93
    ELSE IF Len(row.epochs) = 0
    THEN Raised("ValueError")                        \* line 96: nothing to unpack
    ELSE IF Len(srow(st, row.uuid)) = 0
    THEN Raised("IndexError")                        \* line 99: srow['m'][0]
    ELSE LET sl == sorted_list(row)
         IN  [kind  |-> "png",
              title |-> row.uuid,
              x     |-> [k \in 1 .. Len(sl) |-> sl[k][1]],
              y     |-> [k \in 1 .. Len(sl) |-> sl[k][2]],
              yerr  |-> [k \in 1 .. Len(sl) |-> sl[k][3]]]

\* Variant: the exception is swallowed and the loop goes on.
IsErrorSwallowed(r) == FALSE

\* Whether the loop body raised: the exception leaves plot_lc_table.
IsError(r) == r.kind = "raised"

\* ----------------------------------------------------------- the slice
\* The indices of ftab[start::stride] in a table of n rows.
RECURSIVE Slice(_, _, _)
Slice(start, stride, n) ==
    IF start >= n THEN <<>>
    ELSE <<start>> \o Slice(start + stride, stride, n)

\* Variants: every task starts at row 0; every task has stride 1.
TaskArgsSameStart(i, n) == [start |-> 0, stride |-> n]

TaskArgsStrideOne(i, n) == [start |-> i, stride |-> 1]

\* The keyword arguments of the i-th apply_async of an invocation with n workers.
TaskArgs(i, n) == [start |-> i, stride |-> n]

NoTask == [pc |-> "none", start |-> 0, stride |-> 0, rows |-> <<>>, pos |-> 0]

\* Variant: the exists check never finds the file.
existsNever(u) == FALSE

\* os.path.exists(fname) for fname = plot_dir/uuid.png
exists(u) == files[u] # Absent

\* ------------------------------------------------- plot_lc_table_parallel
\* The call: pool = mp.Pool(nprocs).
Invoke(k, n) ==
    /\ drv[k] = "idle"
    /\ k = 2 => drv[1] # "idle"       \* invocation 1 names the one called first
    /\ drv' = [drv EXCEPT ![k] = "submit"]
    /\ nprocs' = [nprocs EXCEPT ![k] = n]
    /\ nsub' = [nsub EXCEPT ![k] = 0]
    /\ snap' = [snap EXCEPT ![k] = files]
    /\ prior' = [prior EXCEPT ![k] = {j \in Invs : drv[j] = "returned"}]
    /\ UNCHANGED <<ftab, stab, files, files0, wk, ops, summary>>

\* One turn of "for i in range(nprocs): pool.apply_async(plot_lc_table, ...)".
Submit(k) ==
    /\ drv[k] = "submit"
    /\ nsub[k] < nprocs[k]
    /\ wk' = [wk EXCEPT ![k][nsub[k]] =
                [pc |-> "queued",
                 start |-> TaskArgs(nsub[k], nprocs[k]).start,
                 stride |-> TaskArgs(nsub[k], nprocs[k]).stride,
                 rows |-> <<>>, pos |-> 0]]
    /\ nsub' = [nsub EXCEPT ![k] = nsub[k] + 1]
    /\ UNCHANGED <<ftab, stab, files, files0, nprocs, drv, ops, snap, prior, summary>>

\* pool.close(): the loop is over, no more tasks; the driver goes on to join.
Close(k) ==
    /\ drv[k] = "submit"
    /\ nsub[k] = nprocs[k]
    /\ drv' = [drv EXCEPT ![k] = "join"]
    /\ UNCHANGED <<ftab, stab, files, files0, nprocs, nsub, wk, ops, snap, prior, summary>>

\* Variant: the driver does not wait for the tasks.
FinishedOrNot(w) == TRUE

\* A task has ended: plot_lc_table returned, or an exception left it.
Finished(w) == w.pc \in {"done", "dead"}

\* pool.join() returns once every task has ended; the AsyncResults are dropped,
\* so a task's exception is never re-raised in the driver.
Join(k) ==
    /\ drv[k] = "join"
    /\ \A i \in Workers : i < nprocs[k] => Finished(wk[k][i])
    /\ drv' = [drv EXCEPT ![k] = "returned"]
    /\ UNCHANGED <<ftab, stab, files, files0, nprocs, nsub, wk, ops, snap, prior, summary>>

\* ------------------------------------------------------------ plot_lc_table
\* Variant: the loop steps over every other row of the slice.
AdvanceTwo(w) ==
    IF w.pos + 2 > Len(w.rows)
    THEN [w EXCEPT !.pc = "done", !.pos = w.pos + 2]
    ELSE [w EXCEPT !.pc = "loop", !.pos = w.pos + 2]

\* The position after row pos of the loop: the next row, or the return.
Advance(w) ==
    IF w.pos + 1 > Len(w.rows)
    THEN [w EXCEPT !.pc = "done", !.pos = w.pos + 1]
    ELSE [w EXCEPT !.pc = "loop", !.pos = w.pos + 1]

\* A pool process takes the task: the tables are read and the slice is taken.
Start(k, i) ==
    /\ wk[k][i].pc = "queued"
    /\ LET rows == Slice(wk[k][i].start, wk[k][i].stride, Len(ftab))
       IN  wk' = [wk EXCEPT ![k][i] =
                    Advance([wk[k][i] EXCEPT !.rows = rows, !.pos = 0])]
    /\ UNCHANGED <<ftab, stab, files, files0, nprocs, drv, nsub, ops, snap, prior, summary>>

CurrentRow(w) == ftab[w.rows[w.pos] + 1]

\* Lines 85-89: the path of the row and the exists check.
Check(k, i) ==
    /\ wk[k][i].pc = "loop"
    /\ LET w == wk[k][i]
           u == CurrentRow(w).uuid
       IN  /\ ops' = ops \cup {<<k, i, "exists", w.rows[w.pos], u, exists(u)>>}
           /\ wk' = [wk EXCEPT ![k][i] =
                        IF exists(u) THEN Advance(w) ELSE [w EXCEPT !.pc = "render"]]
    /\ UNCHANGED <<ftab, stab, files, files0, nprocs, drv, nsub, snap, prior, summary>>

\* Variant: the path is checked again right before the save.
RenderRecheck(k, i) ==
    /\ wk[k][i].pc = "render"
    /\ LET w == wk[k][i]
           row == CurrentRow(w)
           fig == RenderRow(row, stab)
       IN  IF IsError(fig)
           THEN /\ wk' = [wk EXCEPT ![k][i] = [w EXCEPT !.pc = "dead"]]
                /\ UNCHANGED <<files, ops>>
           ELSE IF exists(row.uuid)
           THEN /\ wk' = [wk EXCEPT ![k][i] = Advance(w)]
                /\ UNCHANGED <<files, ops>>
           ELSE /\ files' = [files EXCEPT ![row.uuid] = fig]
                /\ ops' = ops \cup {<<k, i, "savefig", w.rows[w.pos], row.uuid, exists(row.uuid)>>}
                /\ wk' = [wk EXCEPT ![k][i] = Advance(w)]
    /\ UNCHANGED <<ftab, stab, files0, nprocs, drv, nsub, snap, prior, summary>>

\* Lines 90-114: parse, sort, draw and save; an exception ends the task.
Render(k, i) ==
    /\ wk[k][i].pc = "render"
    /\ LET w == wk[k][i]
           row == CurrentRow(w)
           fig == RenderRow(row, stab)
       IN  IF IsError(fig)
           THEN /\ wk' = [wk EXCEPT ![k][i] = [w EXCEPT !.pc = "dead"]]
                /\ UNCHANGED <<files, ops>>
           ELSE /\ files' = [files EXCEPT ![row.uuid] = fig]
                /\ ops' = ops \cup {<<k, i, "savefig", w.rows[w.pos], row.uuid, exists(row.uuid)>>}
                /\ wk' = [wk EXCEPT ![k][i] = Advance(w)]
    /\ UNCHANGED <<ftab, stab, files0, nprocs, drv, nsub, snap, prior, summary>>

\* ------------------------------------------------------ summary renderers
\* np.log10 of a p-value: a number for p > 0, -inf for 0, nan below 0.
\* P-values are in thousandths.
log10(p) ==
    IF p > 0 THEN [class |-> "finite", arg |-> p]
    ELSE IF p = 0 THEN [class |-> "-inf", arg |-> 0]
    ELSE [class |-> "nan", arg |-> 0]

\* What a summary renderer hands to ax.scatter: the statistics rows, with the
\* y coordinate of each.
Scatter(by, rows) ==
    [kind |-> "scatter", by |-> by, rows |-> rows,
     y |-> [k \in 1 .. Len(rows) |-> log10(rows[k].pval)]]

\* SELECT ... FROM stats WHERE pval_peak_flux > 0
SelectPositive(st) == SelectSeq(st, LAMBDA r : r.pval > 0)

\* tab['pval_peak_flux_ks'], tab['md'], tab['mean_peak_flux']: whole columns.
TableColumns(st) == st

\* plot_summary(cur, plotfile) of src/plot_variables.py, on a database whose
\* stats table holds the rows of stab.
plot_summary ==
    /\ summary = None
    /\ LET rows == SelectPositive(stab)
       IN  summary' = IF rows = <<>>
                      THEN Raised("ValueError")      \* line 33: nothing to unpack
                      ELSE Scatter("plot_summary", rows)
    /\ UNCHANGED <<ftab, stab, files, files0, nprocs, drv, nsub, wk, ops, snap, prior>>

\* plot_summary_table(filename, plotfile) of src/scripts/plot_variables.py.
plot_summary_table ==
    /\ summary = None
    /\ summary' = Scatter("scripts/plot_summary_table", TableColumns(stab))
    /\ UNCHANGED <<ftab, stab, files, files0, nprocs, drv, nsub, wk, ops, snap, prior>>

\* plot_summary_table(filename, plotfile) of src/plot_variables.py.
plot_summary_table_old ==
    /\ summary = None
    /\ summary' = Scatter("plot_summary_table", TableColumns(stab))
    /\ UNCHANGED <<ftab, stab, files, files0, nprocs, drv, nsub, wk, ops, snap, prior>>

SummaryNext ==
    \/ plot_summary
    \/ plot_summary_table
    \/ plot_summary_table_old

\* plot_lc_table called directly, as a function: start=0, stride=1.
DirectNext ==
    \/ Start(1, 0)
    \/ Check(1, 0)
    \/ Render(1, 0)

Next ==
    \/ \E k \in Invs, n \in 1 .. MaxProcs : Invoke(k, n)
    \/ \E k \in Invs : Submit(k)
    \/ \E k \in Invs : Close(k)
    \/ \E k \in Invs : Join(k)
    \/ \E k \in Invs, i \in Workers : Start(k, i)
    \/ \E k \in Invs, i \in Workers : Check(k, i)
    \/ \E k \in Invs, i \in Workers : Render(k, i)

\* ------------------------------------------------------------ the inputs
L_Jan02 == Label(2020, 1, 2, "T", 0, 0, 0)
L_Jan01 == Label(2020, 1, 1, "T", 23, 59, 59)
L_Dec31 == Label(2019, 12, 31, "T", 12, 0, 0)
L_Space == Label(2020, 1, 2, " ", 0, 0, 0)

Meas(l, f, e) == [epoch |-> l, peak_flux |-> f, err_peak_flux |-> e]

\* A row stored out of chronological order, and a row with a malformed label.
GoodEpochs == <<Meas(L_Jan02, 1, 2), Meas(L_Dec31, 2, 1)>>
BadEpochs == <<Meas(L_Jan02, 1, 2), Meas(L_Space, 2, 1)>>

SeqsUpTo(S, n) == UNION {[1 .. m -> S] : m \in 0 .. n}

FluxRows(n) == [uuid : 1 .. n, epochs : {GoodEpochs, BadEpochs}]

RECURSIVE StatsOf(_, _)
StatsOf(S, u) ==
    IF u > MaxRows THEN <<>>
    ELSE (IF u \in S THEN <<[uuid |-> u, pval |-> 500]>> ELSE <<>>) \o StatsOf(S, u + 1)

\* Nothing has been called yet; the invocations in `on` can be.
Idle(on) ==
    /\ nprocs = [k \in Invs |-> 0]
    /\ drv = [k \in Invs |-> IF k \in on THEN "idle" ELSE "off"]
    /\ nsub = [k \in Invs |-> 0]
    /\ wk = [k \in Invs |-> [i \in Workers |-> NoTask]]
    /\ ops = {}
    /\ snap = [k \in Invs |-> files]
    /\ prior = [k \in Invs |-> {}]
    /\ summary = None

\* Tables of at most n rows over n sources: row j is source j, or source 1
\* once more. The statistics table has a row for every source, or for every
\* source but the first. Any of the sources' files are already there.
Tables(n) ==
    /\ ftab \in {t \in SeqsUpTo(FluxRows(n), n) : \A j \in 1 .. Len(t) : t[j].uuid \in {1, j}}
    /\ stab \in {StatsOf(UUIDs, 1), StatsOf(UUIDs \ {1}, 1)}
    /\ files \in {f \in [UUIDs -> {Absent, OldFile}] : \A u \in UUIDs : u > n => f[u] = Absent}
    /\ files0 = files

\* One invocation of plot_lc_table_parallel.
Init == Tables(MaxRows) /\ Idle({1})

Spec == Init /\ [][Next]_vars

\* Tables of at most n rows of distinct sources, each with a statistics row;
\* the output directory is empty or holds the file of source 1.
TwoTables(n) ==
    /\ ftab \in {t \in SeqsUpTo(FluxRows(n), n) : \A j \in 1 .. Len(t) : t[j].uuid = j}
    /\ stab = StatsOf(UUIDs, 1)
    /\ files \in {[u \in UUIDs |-> Absent], [u \in UUIDs |-> IF u = 1 THEN OldFile ELSE Absent]}
    /\ files0 = files

\* The operating system schedules every process: the driver of an invocation
\* and each pool task keep taking their steps.
Fairness ==
    /\ \A k \in Invs : WF_vars(Submit(k) \/ Close(k) \/ Join(k))
    /\ \A k \in Invs : \A i \in Workers : WF_vars(Start(k, i) \/ Check(k, i) \/ Render(k, i))

\* One invocation over the smaller tables, fairly scheduled.
FairInit == TwoTables(TwoRows) /\ Idle({1})

FairSpec == FairInit /\ [][Next]_vars /\ Fairness

\* Two invocations over the same tables and output directory, the second
\* called at any time after the first.
TwoInit == TwoTables(TwoRows) /\ Idle(Invs)

TwoSpec == TwoInit /\ [][Next]_vars

\* A direct call plot_lc_table(flux_table, stats_table) with the defaults
\* start=0, stride=1 on a table of two sources: a row of any epochs, and the
\* same epoch columns permuted together.
Labels == {L_Jan02, L_Jan01, L_Dec31, L_Space}
Measurements == {Meas(l, fe[1], fe[2]) : l \in Labels, fe \in {<<1, 2>>, <<2, 1>>}}

Permuted(e, p) == [k \in 1 .. Len(e) |-> e[p[k]]]

DirectCall == [pc |-> "queued", start |-> 0, stride |-> 1, rows |-> <<>>, pos |-> 0]

SortInit ==
    /\ \E e \in SeqsUpTo(Measurements, MaxEpochs) :
         \E p \in Permutations(1 .. Len(e)) :
            ftab = <<[uuid |-> 1, epochs |-> e], [uuid |-> 2, epochs |-> Permuted(e, p)]>>
    /\ stab = StatsOf(UUIDs, 1)
    /\ files = [u \in UUIDs |-> Absent]
    /\ files0 = files
    /\ nprocs = [k \in Invs |-> 0]
    /\ drv = [k \in Invs |-> "off"]
    /\ nsub = [k \in Invs |-> 0]
    /\ wk = [k \in Invs |-> [i \in Workers |-> IF k = 1 /\ i = 0 THEN DirectCall ELSE NoTask]]
    /\ ops = {}
    /\ snap = [k \in Invs |-> files]
    /\ prior = [k \in Invs |-> {}]
    /\ summary = None

SortSpec == SortInit /\ [][DirectNext]_vars

\* A statistics table of any p-values (in thousandths: -1, 0, 0.001, 0.5),
\* handed to one of the summary renderers.
PVals == {-1000, 0, 1, 500}

SummaryInit ==
    /\ \E pv \in SeqsUpTo(PVals, MaxStats) :
          stab = [k \in 1 .. Len(pv) |-> [uuid |-> k, pval |-> pv[k]]]
    /\ ftab = <<>>
    /\ files = [u \in UUIDs |-> Absent]
    /\ files0 = files
    /\ Idle({})

SummarySpec == SummaryInit /\ [][SummaryNext]_vars

\* ---------------------------------------------------------------- claims
Range(s) == {s[k] : k \in 1 .. Len(s)}

\* The worker tasks an invocation has launched so far.
Launched(k) == {i \in Workers : wk[k][i].pc # "none"}

\* The row indices a launched task iterates over.
AssignedRows(w) ==
    IF w.pc = "queued" THEN Range(Slice(w.start, w.stride, Len(ftab))) ELSE Range(w.rows)

AllRows == 0 .. (Len(ftab) - 1)

TableUuids == {ftab[j].uuid : j \in 1 .. Len(ftab)}

DistinctUuids == \A a, b \in 1 .. Len(ftab) : a # b => ftab[a].uuid # ftab[b].uuid

Malformed(row) == \E e \in 1 .. Len(row.epochs) : strptime(row.epochs[e].epoch) = ValueError

AllRowsGood == \A j \in 1 .. Len(ftab) : ~IsError(RenderRow(ftab[j], stab))

Saved(k, i, j) == \E o \in ops : o[1] = k /\ o[2] = i /\ o[3] = "savefig" /\ o[4] = j

\* C1: once the submit loop of an invocation with N workers is over, exactly
\* the tasks 0..N-1 are launched, task i with start=i and stride=N, and the
\* sets of row indices they iterate over are pairwise disjoint and cover
\* every row of the table: each row belongs to exactly one worker.
C1_Partition ==
    \A k \in Invs : drv[k] \in {"join", "returned"} =>
        /\ Launched(k) = 0 .. (nprocs[k] - 1)
        /\ \A i \in Launched(k) : wk[k][i].start = i /\ wk[k][i].stride = nprocs[k]
        /\ \A i, j \in Launched(k) :
              i # j => AssignedRows(wk[k][i]) \cap AssignedRows(wk[k][j]) = {}
        /\ UNION {AssignedRows(wk[k][i]) : i \in Launched(k)} = AllRows
        /\ \A r \in AllRows :
              Cardinality({i \in Launched(k) : r \in AssignedRows(wk[k][i])}) = 1

C1_Witness ==
    /\ drv[1] = "returned"
    /\ nprocs[1] = 2
    /\ Len(ftab) = 3
    /\ AssignedRows(wk[1][0]) = {0, 2}
    /\ AssignedRows(wk[1][1]) = {1}

\* C3: a file that was there before the run is never saved again and stays
\* as it was; and when every row is well-formed with a statistics row, a
\* returned run has created a figure for exactly the sources of the table
\* whose file was absent at the start.
C3_SkipIfExists ==
    /\ \A u \in UUIDs : files0[u] # Absent =>
          /\ files[u] = files0[u]
          /\ ~\E o \in ops : o[3] = "savefig" /\ o[5] = u
    /\ (AllRowsGood /\ drv[1] = "returned") =>
          /\ {u \in UUIDs : files[u] # files0[u]} = {u \in TableUuids : files0[u] = Absent}
          /\ \A u \in TableUuids : files0[u] = Absent => files[u].kind = "png"
          /\ \A u \in TableUuids : files[u] # Absent

C3_Witness ==
    /\ drv[1] = "returned"
    /\ AllRowsGood
    /\ Len(ftab) = 3
    /\ DistinctUuids
    /\ Cardinality({u \in UUIDs : files0[u] # Absent}) = 2
    /\ Cardinality({u \in UUIDs : files[u] # files0[u]}) = 1
    /\ Cardinality({o \in ops : o[3] = "savefig"}) = 1

\* C7: over a table of distinct uuids, each output path is checked and saved
\* by at most one worker of an invocation, so while a worker is between its
\* exists check and its save, no other worker of the invocation has touched
\* or touches that path.
C7_DisjointPaths ==
    DistinctUuids =>
        \A k \in Invs : \A u \in UUIDs :
            Cardinality({i \in Workers : \E o \in ops : o[1] = k /\ o[2] = i /\ o[5] = u}) <= 1

C7_Witness ==
    /\ DistinctUuids
    /\ nprocs[1] = 2
    /\ wk[1][0].pc = "render"
    /\ wk[1][1].pc = "render"
    /\ Cardinality({o \in ops : o[1] = 1}) >= 3

\* C8: when a worker has reached a row with a malformed epoch label whose
\* file was absent, it stays at that row: it saves no figure for that row
\* nor for any later row of its slice, and the rows it handled before have
\* their files. When the driver has returned (it does, normally) that worker
\* is dead and every other worker has gone through all of its own rows: it
\* is done with a file for each, or died on a failing row of its own.
C8_FailureConfined ==
    \A o \in ops :
        (o[3] = "exists" /\ ~o[6] /\ Malformed(ftab[o[4] + 1])) =>
            LET k == o[1]
                i == o[2]
                w == wk[k][i]
            IN  /\ w.pc \in {"render", "dead"}
                /\ w.rows[w.pos] = o[4]
                /\ \A q \in w.pos .. Len(w.rows) : ~Saved(k, i, w.rows[q])
                /\ \A q \in 1 .. (w.pos - 1) : files[ftab[w.rows[q] + 1].uuid] # Absent
                /\ drv[k] = "returned" =>
                      /\ w.pc = "dead"
                      /\ \A j \in Launched(k) \ {i} :
                            \/ /\ wk[k][j].pc = "done"
                               /\ wk[k][j].rows = Slice(j, nprocs[k], Len(ftab))
                               /\ \A r \in Range(wk[k][j].rows) :
                                     files[ftab[r + 1].uuid] # Absent
                            \/ /\ wk[k][j].pc = "dead"
                               /\ IsError(RenderRow(CurrentRow(wk[k][j]), stab))

C8_Witness ==
    /\ drv[1] = "returned"
    /\ nprocs[1] = 2
    /\ Len(ftab) = 3
    /\ DistinctUuids
    /\ files0 = [u \in UUIDs |-> Absent]
    /\ wk[1][0].pc = "dead" /\ wk[1][0].pos = 1 /\ Malformed(ftab[1])
    /\ files[ftab[1].uuid] = Absent /\ files[ftab[3].uuid] = Absent
    /\ wk[1][1].pc = "done" /\ files[ftab[2].uuid].kind = "png"

\* C9: the driver returns only after it has submitted all N tasks and every
\* one of them has ended, each having gone through its whole slice or died
\* on a row that raises (none is cut short); and under fair scheduling an
\* invocation that was called eventually returns.
C9_Joined ==
    \A k \in Invs : drv[k] = "returned" =>
        /\ nsub[k] = nprocs[k]
        /\ Launched(k) = 0 .. (nprocs[k] - 1)
        /\ \A i \in Launched(k) :
              \/ wk[k][i].pc = "done" /\ wk[k][i].pos = Len(wk[k][i].rows) + 1
              \/ wk[k][i].pc = "dead" /\ IsError(RenderRow(CurrentRow(wk[k][i]), stab))

C9_JoinBeforeReturn ==
    /\ []C9_Joined
    /\ \A k \in Invs : (drv[k] = "submit") ~> (drv[k] = "returned")

C9_Witness ==
    /\ drv[1] = "returned"
    /\ nprocs[1] = 2
    /\ nsub[1] = 2
    /\ wk[1][0].pc = "done" /\ Len(wk[1][0].rows) = 1
    /\ wk[1][1].pc = "dead"

\* C2 as stated: a run called after another run has returned leaves the
\* output directory as it found it, and every row it visits is skipped.
SecondRunSkips(k) ==
    /\ files = snap[k]
    /\ ~\E o \in ops : o[1] = k /\ o[3] = "savefig"
    /\ \A o \in ops : (o[1] = k /\ o[3] = "exists") => o[6]
    /\ \A i \in Workers : wk[k][i].pc \notin {"render", "dead"}

C10_CheckThenSave ==
    [][\A k \in Invs : \A i \in Workers :
          (/\ wk[k][i].pc = "render"
           /\ wk'[k][i] # wk[k][i]
           /\ ~IsError(RenderRow(CurrentRow(wk[k][i]), stab)))
          => /\ files'[CurrentRow(wk[k][i]).uuid] = RenderRow(CurrentRow(wk[k][i]), stab)
             /\ <<k, i, "savefig", wk[k][i].rows[wk[k][i].pos], CurrentRow(wk[k][i]).uuid,
                  files[CurrentRow(wk[k][i]).uuid] # Absent>> \in ops']_vars

C10_Witness ==
    /\ nprocs[1] # nprocs[2]
    /\ \E u \in UUIDs :
          /\ files0[u] = Absent
          /\ \E a, b \in ops :
                /\ a[1] = 1 /\ a[3] = "exists" /\ a[5] = u /\ ~a[6]
                /\ b[1] = 2 /\ b[3] = "exists" /\ b[5] = u /\ ~b[6]
          /\ \E a, b \in ops :
                /\ a[1] = 1 /\ a[3] = "savefig" /\ a[5] = u
                /\ b[1] = 2 /\ b[3] = "savefig" /\ b[5] = u

\* The points of a saved figure, and the triples of a stored row.
Points(fig) == [k \in 1 .. Len(fig.x) |-> <<fig.x[k], fig.y[k], fig.yerr[k]>>]

Triples(row) ==
    [k \in 1 .. Len(row.epochs) |->
        <<row.epochs[k].epoch, row.epochs[k].peak_flux, row.epochs[k].err_peak_flux>>]

TimesOf(fig) == [k \in 1 .. Len(fig.x) |-> strptime(fig.x[k])]

RowOf(u) == CHOOSE j \in 1 .. Len(ftab) : ftab[j].uuid = u

\* C5: the points of every figure plot_lc_table saves are a permutation of
\* the stored (epoch, flux, error) triples of its row, each flux and error
\* with its own epoch, and no point is earlier in time than the one before.
C5_Chronological ==
    \A u \in UUIDs : files[u].kind = "png" =>
        LET fig == files[u]
            tr == Triples(ftab[RowOf(u)])
        IN  /\ Len(fig.x) = Len(tr) /\ Len(fig.y) = Len(tr) /\ Len(fig.yerr) = Len(tr)
            /\ \E pi \in Permutations(1 .. Len(tr)) :
                  \A k \in 1 .. Len(tr) : Points(fig)[k] = tr[pi[k]]
            /\ \A k \in 1 .. (Len(tr) - 1) :
                  ~DateLess(strptime(fig.x[k + 1]), strptime(fig.x[k]))

C5_Witness ==
    /\ files[1].kind = "png"
    /\ Len(ftab[1].epochs) = 3
    /\ \A k \in 1 .. 2 :
          DateLess(strptime(ftab[1].epochs[k + 1].epoch), strptime(ftab[1].epochs[k].epoch))
    /\ Points(files[1]) # Triples(ftab[1])

DistinctTimes(row) ==
    \A a, b \in 1 .. Len(row.epochs) :
        a # b => strptime(row.epochs[a].epoch) # strptime(row.epochs[b].epoch)

\* C6 as stated: a row and the same row with its epoch columns permuted are
\* rendered as the same sequence of points, ties in time included.
C6_Original ==
    (files[1].kind = "png" /\ files[2].kind = "png") =>
        Points(files[1]) = Points(files[2])

\* C6 as amended: a row and the same row with its epoch columns permuted are
\* rendered with the same sequence of timestamps, and with the same sequence
\* of points when the row's timestamps are pairwise distinct.
C6_PermutationInvariant ==
    (files[1].kind = "png" /\ files[2].kind = "png") =>
        /\ TimesOf(files[1]) = TimesOf(files[2])
        /\ DistinctTimes(ftab[1]) => Points(files[1]) = Points(files[2])

C6_Witness ==
    /\ files[1].kind = "png" /\ files[2].kind = "png"
    /\ Len(ftab[1].epochs) = 3
    /\ DistinctTimes(ftab[1])
    /\ ftab[1].epochs # ftab[2].epochs
    /\ Points(files[1]) = Points(files[2])

\* C4: the rows a summary renderer hands to the plot are exactly the rows of
\* the statistics table with a p-value above 0, in table order.
C4_SummaryFilter ==
    /\ summary.kind = "scatter" =>
          /\ \A k \in 1 .. Len(summary.rows) : summary.rows[k].pval > 0
          /\ \A k \in 1 .. Len(stab) :
                stab[k].pval > 0 => \E m \in 1 .. Len(summary.rows) : summary.rows[m] = stab[k]
    /\ summary.kind = "raised" => \A k \in 1 .. Len(stab) : stab[k].pval <= 0

====
